---- MODULE Spec2Model ----
(***************************************************************************)
(* Model of the Google Sheets MCP server: the tool catalogue and the       *)
(* call-tool handler of GoogleSheetsServer (src/src/index.ts) and the       *)
(* backend operations of GoogleSheetsClient (src/unnamed/part_000, the      *)
(* module index.ts imports as ./google-sheets-client.js).                   *)
(*                                                                          *)
(* A JavaScript string is a sequence of chunks; a chunk is a piece of text  *)
(* without special characters, or one of the characters JSON.stringify      *)
(* escapes (double quote, backslash, newline).  A JSON value is a tagged    *)
(* record.  An async handler is cut at its only suspension point, the       *)
(* remote request awaited inside the backend operation.                     *)
(***************************************************************************)
EXTENDS Integers, Sequences, FiniteSets, TLC

VARIABLES
    pending,    \* request id -> the call suspended at its remote request, or NoCall
    response,   \* the JSON-RPC response the transport is writing out, or NoResponse
    last,       \* the history of the call that response answers, or NoCall
    process,    \* the node process: running, or exited (with exit code and cause)
    client,     \* the fields of the GoogleSheetsClient built at start-up
    reads,      \* the answers to get_values calls the caller has kept, in order
    transport,  \* the server's connection: none, connected, closing or closed
    tempFiles   \* the temporary credentials files that exist on disk

vars == <<pending, response, last, process, client, reads, transport, tempFiles>>

(***************************************************************************)
(* Bounds of the model.                                                     *)
(***************************************************************************)
\* Number of request ids, hence of calls that can be in flight at once.
MaxInFlight == 2

\* Number of answers to get_values calls the caller keeps for comparison.
MaxReads == 2

(***************************************************************************)
(* JavaScript / JSON values.                                                *)
(***************************************************************************)
Undefined == [t |-> "undef"]
Str(s)    == [t |-> "str", s |-> s]
Num(n)    == [t |-> "num", n |-> n]
Bool(b)   == [t |-> "bool", b |-> b]
Arr(a)    == [t |-> "arr", a |-> a]
\* An object is the sequence of its <<key, value>> members, in insertion order.
Obj(f)    == [t |-> "obj", f |-> f]

DQ == "\""
BS == "\\"
NL == "\n"

\* o.k : the value of member k, undefined when o has no such member.
Get(o, k) ==
    IF o.t = "obj" /\ \E i \in 1..Len(o.f) : o.f[i][1] = k
    THEN o.f[CHOOSE i \in 1..Len(o.f) : o.f[i][1] = k][2]
    ELSE Undefined

\* a || b
OrElse(a, b) ==
    IF \/ a.t = "undef"
       \/ (a.t = "str" /\ a.s = <<>>)
       \/ (a.t = "num" /\ a.n = 0)
       \/ (a.t = "bool" /\ ~a.b)
    THEN b ELSE a

\* a ?? b
Coalesce(a, b) == IF a.t = "undef" THEN b ELSE a

\* A parameter with a default value: the default applies to undefined only.
Default(a, d) == IF a.t = "undef" THEN d ELSE a

\* `${v}` inside a template literal.
Template(v) ==
    CASE v.t = "str"   -> v.s
      [] v.t = "num"   -> <<ToString(v.n)>>
      [] v.t = "bool"  -> <<IF v.b THEN "true" ELSE "false">>
      [] v.t = "undef" -> <<"undefined">>
      [] v.t = "arr"   -> <<"[array]">>
      [] v.t = "obj"   -> <<"[object Object]">>

(***************************************************************************)
(* JSON.stringify(value, null, 2).                                          *)
(***************************************************************************)
EscapeChunk(c) ==
    CASE c = DQ -> <<BS, DQ>>
      [] c = BS -> <<BS, BS>>
      [] c = NL -> <<BS, "n">>
      [] OTHER  -> <<c>>

RECURSIVE Escape(_)
Escape(s) == IF s = <<>> THEN <<>> ELSE EscapeChunk(Head(s)) \o Escape(Tail(s))

Quote(s) == <<DQ>> \o Escape(s) \o <<DQ>>

Indent(depth) == [i \in 1..depth |-> "  "]

\* Members whose value is undefined are left out of an object.
Defined(f) == SelectSeq(f, LAMBDA m : m[2].t # "undef")

RECURSIVE Serialize(_, _)
RECURSIVE SerializeMembers(_, _)
RECURSIVE SerializeItems(_, _)

SerializeMembers(f, depth) ==
    IF f = <<>> THEN <<>>
    ELSE Indent(depth) \o Quote(<<Head(f)[1]>>) \o <<": ">>
         \o Serialize(Head(f)[2], depth)
         \o (IF Len(f) > 1 THEN <<",", NL>> ELSE <<NL>>)
         \o SerializeMembers(Tail(f), depth)

SerializeItems(a, depth) ==
    IF a = <<>> THEN <<>>
    ELSE Indent(depth)
         \o (IF Head(a).t = "undef" THEN <<"null">> ELSE Serialize(Head(a), depth))
         \o (IF Len(a) > 1 THEN <<",", NL>> ELSE <<NL>>)
         \o SerializeItems(Tail(a), depth)

Serialize(v, depth) ==
    CASE v.t = "str"  -> Quote(v.s)
      [] v.t = "num"  -> <<ToString(v.n)>>
      [] v.t = "bool" -> <<IF v.b THEN "true" ELSE "false">>
      [] v.t = "arr"  ->
            IF v.a = <<>> THEN <<"[]">>
            ELSE <<"[", NL>> \o SerializeItems(v.a, depth + 1)
                 \o Indent(depth) \o <<"]">>
      [] v.t = "obj"  ->
            IF Defined(v.f) = <<>> THEN <<"{}">>
            ELSE <<"{", NL>> \o SerializeMembers(Defined(v.f), depth + 1)
                 \o Indent(depth) \o <<"}">>

JSONstringify(v) == Serialize(v, 0)

(***************************************************************************)
(* The tool catalogue: the literal `tools` of the list-tools handler.       *)
(* The free-text descriptions are left out; names, property names, types    *)
(* and required lists are kept, in source order.                            *)
(***************************************************************************)
Prop(name, type) == <<name, [type |-> type]>>

PropArrayOf(name, items) == <<name, [type |-> "array", items |-> items]>>

\* Mutant of Descriptor: every property of a tool is declared required.
DescriptorAllRequired(name, properties, required) ==
    [name |-> name,
     inputSchema |-> [type |-> "object", properties |-> properties,
                      required |-> [i \in 1..Len(properties) |-> properties[i][1]]]]

Descriptor(name, properties, required) ==
    [name |-> name,
     inputSchema |-> [type |-> "object", properties |-> properties,
                      required |-> required]]

\* Mutant of DescriptorNoRequired: a descriptor pasted from the one before
\* it keeps the name google_sheets_delete_sheet.
DescriptorNoRequiredPasted(name, properties) ==
    [name |-> IF name = "google_sheets_list" THEN "google_sheets_delete_sheet" ELSE name,
     inputSchema |-> [type |-> "object", properties |-> properties]]

\* google_sheets_list and google_sheets_verify_connection declare no `required`.
DescriptorNoRequired(name, properties) ==
    [name |-> name,
     inputSchema |-> [type |-> "object", properties |-> properties]]

\* items: {}
AnySchema == [schema |-> "{}"]

RangeSchema ==
    <<"range",
      [type |-> "object",
       properties |-> <<Prop("startRowIndex", "number"), Prop("endRowIndex", "number"),
                        Prop("startColumnIndex", "number"),
                        Prop("endColumnIndex", "number")>>,
       required |-> <<"startRowIndex", "endRowIndex", "startColumnIndex",
                      "endColumnIndex">>]>>

DataSchema ==
    <<"data",
      [type |-> "object",
       properties |-> <<PropArrayOf("headers", [type |-> "string"]),
                        PropArrayOf("rows", [type |-> "array", items |-> AnySchema])>>,
       required |-> <<"headers", "rows">>]>>

Tools ==
    << Descriptor("google_sheets_create",
            <<Prop("title", "string"), PropArrayOf("sheets", [type |-> "string"])>>,
            <<"title">>),
       Descriptor("google_sheets_get",
            <<Prop("spreadsheetId", "string"), Prop("includeGridData", "boolean")>>,
            <<"spreadsheetId">>),
       Descriptor("google_sheets_update_values",
            <<Prop("spreadsheetId", "string"), Prop("range", "string"),
              Prop("values", "array"), Prop("valueInputOption", "string")>>,
            <<"spreadsheetId", "range", "values">>),
       Descriptor("google_sheets_append_values",
            <<Prop("spreadsheetId", "string"), Prop("range", "string"),
              Prop("values", "array"), Prop("valueInputOption", "string")>>,
            <<"spreadsheetId", "range", "values">>),
       Descriptor("google_sheets_get_values",
            <<Prop("spreadsheetId", "string"), Prop("range", "string")>>,
            <<"spreadsheetId", "range">>),
       Descriptor("google_sheets_clear_values",
            <<Prop("spreadsheetId", "string"), Prop("range", "string")>>,
            <<"spreadsheetId", "range">>),
       Descriptor("google_sheets_add_sheet",
            <<Prop("spreadsheetId", "string"), Prop("sheetTitle", "string")>>,
            <<"spreadsheetId", "sheetTitle">>),
       Descriptor("google_sheets_delete_sheet",
            <<Prop("spreadsheetId", "string"), Prop("sheetId", "number")>>,
            <<"spreadsheetId", "sheetId">>),
       DescriptorNoRequired("google_sheets_list",
            <<Prop("pageSize", "number"), Prop("pageToken", "string")>>),
       Descriptor("google_sheets_delete",
            <<Prop("spreadsheetId", "string")>>,
            <<"spreadsheetId">>),
       Descriptor("google_sheets_share",
            <<Prop("spreadsheetId", "string"), Prop("emailAddress", "string"),
              Prop("role", "string")>>,
            <<"spreadsheetId", "emailAddress">>),
       Descriptor("google_sheets_search",
            <<Prop("query", "string"), Prop("pageSize", "number"),
              Prop("pageToken", "string")>>,
            <<"query">>),
       Descriptor("google_sheets_format_cells",
            <<Prop("spreadsheetId", "string"), Prop("sheetId", "number"),
              RangeSchema, Prop("format", "object")>>,
            <<"spreadsheetId", "sheetId", "range", "format">>),
       DescriptorNoRequired("google_sheets_verify_connection", <<>>),
       Descriptor("write_to_sheet",
            <<Prop("spreadsheetId", "string"), Prop("sheetName", "string"),
              DataSchema, Prop("clearExisting", "boolean")>>,
            <<"spreadsheetId", "sheetName", "data">>) >>

Range(seq) == {seq[i] : i \in 1..Len(seq)}

ToolNames == {Tools[i].name : i \in 1..Len(Tools)}

ToolNamed(name) == Tools[CHOOSE i \in 1..Len(Tools) : Tools[i].name = name]

PropertyNames(tool) ==
    [i \in 1..Len(tool.inputSchema.properties) |-> tool.inputSchema.properties[i][1]]

Required(tool) ==
    IF "required" \in DOMAIN tool.inputSchema THEN tool.inputSchema.required ELSE <<>>

(***************************************************************************)
(* The switch of the call-tool handler: case label, the client method the   *)
(* case calls, and the fields of `args` it passes, in order.                *)
(***************************************************************************)
Case(label, method, fields) == [label |-> label, method |-> method, fields |-> fields]

SwitchCases ==
    << Case("google_sheets_create", "createSpreadsheet", <<"title", "sheets">>),
       Case("google_sheets_get", "getSpreadsheet", <<"spreadsheetId", "includeGridData">>),
       Case("google_sheets_update_values", "updateValues",
            <<"spreadsheetId", "range", "values", "valueInputOption">>),
       Case("google_sheets_append_values", "appendValues",
            <<"spreadsheetId", "range", "values", "valueInputOption">>),
       Case("google_sheets_get_values", "getValues", <<"spreadsheetId", "range">>),
       Case("google_sheets_clear_values", "clearValues", <<"spreadsheetId", "range">>),
       Case("google_sheets_add_sheet", "addSheet", <<"spreadsheetId", "sheetTitle">>),
       Case("google_sheets_delete_sheet", "deleteSheet", <<"spreadsheetId", "sheetId">>),
       Case("google_sheets_list", "listSpreadsheets", <<"pageSize", "pageToken">>),
       Case("google_sheets_delete", "deleteSpreadsheet", <<"spreadsheetId">>),
       Case("google_sheets_share", "shareSpreadsheet",
            <<"spreadsheetId", "emailAddress", "role">>),
       Case("google_sheets_search", "searchSpreadsheets",
            <<"query", "pageSize", "pageToken">>),
       Case("google_sheets_format_cells", "formatCells",
            <<"spreadsheetId", "sheetId", "range", "format">>),
       Case("google_sheets_verify_connection", "verifyConnection", <<>>),
       Case("write_to_sheet", "writeToSheet",
            <<"spreadsheetId", "sheetName", "data", "clearExisting">>) >>

DefaultCase == [label |-> "default"]

\* Mutant of SwitchOn: the case 'google_sheets_search' is missing from the switch.
SwitchOnWithoutSearch(name) ==
    IF name # "google_sheets_search" /\ \E i \in 1..Len(SwitchCases) : SwitchCases[i].label = name
    THEN SwitchCases[CHOOSE i \in 1..Len(SwitchCases) : SwitchCases[i].label = name]
    ELSE DefaultCase

\* switch (request.params.name): the matching case, or the default branch.
SwitchOn(name) ==
    IF \E i \in 1..Len(SwitchCases) : SwitchCases[i].label = name
    THEN SwitchCases[CHOOSE i \in 1..Len(SwitchCases) : SwitchCases[i].label = name]
    ELSE DefaultCase

(***************************************************************************)
(* GoogleSheetsClient: the public async methods the class defines, each     *)
(* with the default values of its parameters (Undefined: no default).       *)
(* The class defines no writeToSheet.                                       *)
(***************************************************************************)
Method(name, defaults) == [name |-> name, defaults |-> defaults]

ClientMethods ==
    << Method("createSpreadsheet", <<Undefined, Undefined>>),
       Method("getSpreadsheet", <<Undefined, Bool(FALSE)>>),
       Method("updateValues",
              <<Undefined, Undefined, Undefined, Str(<<"USER_ENTERED">>)>>),
       Method("appendValues",
              <<Undefined, Undefined, Undefined, Str(<<"USER_ENTERED">>)>>),
       Method("getValues", <<Undefined, Undefined>>),
       Method("clearValues", <<Undefined, Undefined>>),
       Method("addSheet", <<Undefined, Undefined>>),
       Method("deleteSheet", <<Undefined, Undefined>>),
       Method("listSpreadsheets", <<Num(10), Undefined>>),
       Method("deleteSpreadsheet", <<Undefined>>),
       Method("shareSpreadsheet", <<Undefined, Undefined, Str(<<"reader">>)>>),
       Method("searchSpreadsheets", <<Undefined, Num(10), Undefined>>),
       Method("formatCells", <<Undefined, Undefined, Undefined, Undefined>>),
       Method("verifyConnection", <<>>) >>

MethodNames == {ClientMethods[i].name : i \in 1..Len(ClientMethods)}

MethodNamed(name) ==
    ClientMethods[CHOOSE i \in 1..Len(ClientMethods) : ClientMethods[i].name = name]

\* The names of the parameters of each method, in order.
ParameterNames(method) ==
    CASE method = "createSpreadsheet"  -> <<"title", "sheets">>
      [] method = "getSpreadsheet"     -> <<"spreadsheetId", "includeGridData">>
      [] method \in {"updateValues", "appendValues"} ->
            <<"spreadsheetId", "range", "values", "valueInputOption">>
      [] method \in {"getValues", "clearValues"} -> <<"spreadsheetId", "range">>
      [] method = "addSheet"           -> <<"spreadsheetId", "sheetTitle">>
      [] method = "deleteSheet"        -> <<"spreadsheetId", "sheetId">>
      [] method = "listSpreadsheets"   -> <<"pageSize", "pageToken">>
      [] method = "deleteSpreadsheet"  -> <<"spreadsheetId">>
      [] method = "shareSpreadsheet"   -> <<"spreadsheetId", "emailAddress", "role">>
      [] method = "searchSpreadsheets" -> <<"query", "pageSize", "pageToken">>
      [] method = "formatCells"        -> <<"spreadsheetId", "sheetId", "range", "format">>
      [] method = "verifyConnection"   -> <<>>

\* The positions of the parameters a method declares optional (`name?: type`).
OptionalParameters(method) ==
    CASE method = "createSpreadsheet"  -> {2}
      [] method = "listSpreadsheets"   -> {2}
      [] method = "searchSpreadsheets" -> {3}
      [] OTHER                         -> {}

\* Mutant of Parameters: the default values of the parameters are not applied.
ParametersAsPassed(method, actuals) ==
    [i \in 1..Len(MethodNamed(method).defaults) |->
        IF i <= Len(actuals) THEN actuals[i] ELSE Undefined]

\* The parameters a method body sees when called with `actuals`.
Parameters(method, actuals) ==
    [i \in 1..Len(MethodNamed(method).defaults) |->
        Default(IF i <= Len(actuals) THEN actuals[i] ELSE Undefined,
                MethodNamed(method).defaults[i])]

(***************************************************************************)
(* The remote request each backend operation issues, from its parameters p. *)
(***************************************************************************)
SheetResource(sheetName) == Obj(<< <<"properties", Obj(<< <<"title", sheetName>> >>)>> >>)

\* createSpreadsheet: resource.sheets is set only for a non-empty `sheets`.
CreateResource(title, sheets) ==
    IF sheets.t = "arr" /\ Len(sheets.a) > 0
    THEN Obj(<< <<"properties", Obj(<< <<"title", title>> >>)>>,
                <<"sheets", Arr([i \in 1..Len(sheets.a) |-> SheetResource(sheets.a[i])])>> >>)
    ELSE Obj(<< <<"properties", Obj(<< <<"title", title>> >>)>> >>)

SpreadsheetMime == "mimeType='application/vnd.google-apps.spreadsheet'"

ListFields == Str(<<"nextPageToken, files(id, name, createdTime, modifiedTime, webViewLink)">>)

Request(service, api, params) == [service |-> service, api |-> api, params |-> Obj(params)]

BatchUpdate(spreadsheetId, kind, body) ==
    Request("sheets", "spreadsheets.batchUpdate",
        << <<"spreadsheetId", spreadsheetId>>,
           <<"requestBody",
             Obj(<< <<"requests", Arr(<< Obj(<< <<kind, body>> >>) >>)>> >>)>> >>)

RemoteRequest(method, p) ==
    CASE method = "createSpreadsheet" ->
            Request("sheets", "spreadsheets.create",
                << <<"requestBody", CreateResource(p[1], p[2])>> >>)
      [] method = "getSpreadsheet" ->
            Request("sheets", "spreadsheets.get",
                << <<"spreadsheetId", p[1]>>, <<"includeGridData", p[2]>> >>)
      [] method = "updateValues" ->
            Request("sheets", "spreadsheets.values.update",
                << <<"spreadsheetId", p[1]>>, <<"range", p[2]>>,
                   <<"valueInputOption", p[4]>>,
                   <<"requestBody", Obj(<< <<"values", p[3]>> >>)>> >>)
      [] method = "appendValues" ->
            Request("sheets", "spreadsheets.values.append",
                << <<"spreadsheetId", p[1]>>, <<"range", p[2]>>,
                   <<"valueInputOption", p[4]>>,
                   <<"requestBody", Obj(<< <<"values", p[3]>> >>)>> >>)
      [] method = "getValues" ->
            Request("sheets", "spreadsheets.values.get",
                << <<"spreadsheetId", p[1]>>, <<"range", p[2]>> >>)
      [] method = "clearValues" ->
            Request("sheets", "spreadsheets.values.clear",
                << <<"spreadsheetId", p[1]>>, <<"range", p[2]>> >>)
      [] method = "addSheet" ->
            BatchUpdate(p[1], "addSheet",
                Obj(<< <<"properties", Obj(<< <<"title", p[2]>> >>)>> >>))
      [] method = "deleteSheet" ->
            BatchUpdate(p[1], "deleteSheet", Obj(<< <<"sheetId", p[2]>> >>))
      [] method = "listSpreadsheets" ->
            Request("drive", "files.list",
                << <<"pageSize", p[1]>>, <<"pageToken", p[2]>>,
                   <<"q", Str(<<SpreadsheetMime>>)>>, <<"fields", ListFields>> >>)
      [] method = "deleteSpreadsheet" ->
            Request("drive", "files.delete", << <<"fileId", p[1]>> >>)
      [] method = "shareSpreadsheet" ->
            Request("drive", "permissions.create",
                << <<"fileId", p[1]>>,
                   <<"requestBody",
                     Obj(<< <<"type", Str(<<"user">>)>>, <<"role", p[3]>>,
                            <<"emailAddress", p[2]>> >>)>> >>)
      [] method = "searchSpreadsheets" ->
            Request("drive", "files.list",
                << <<"pageSize", p[2]>>, <<"pageToken", p[3]>>,
                   <<"q", Str(<<SpreadsheetMime, " and name contains '">>
                              \o Template(p[1]) \o <<"'">>)>>,
                   <<"fields", ListFields>> >>)
      [] method = "formatCells" ->
            BatchUpdate(p[1], "repeatCell",
                Obj(<< <<"range",
                         Obj(<< <<"sheetId", p[2]>> >>
                             \o (IF p[3].t = "obj" THEN p[3].f ELSE <<>>))>>,
                       <<"cell", Obj(<< <<"userEnteredFormat", p[4]>> >>)>>,
                       <<"fields", Str(<<"userEnteredFormat">>)>> >>))
      [] method = "verifyConnection" ->
            Request("drive", "files.list",
                << <<"pageSize", Num(1)>>, <<"q", Str(<<SpreadsheetMime>>)>>,
                   <<"fields", Str(<<"files(id, name)">>)>> >>)

(***************************************************************************)
(* What a backend operation returns: from its try block when the remote     *)
(* request resolved with `data`, from its catch block when it rejected      *)
(* with `error`.                                                            *)
(***************************************************************************)
\* getAuthType()
AuthType(auth) ==
    CASE auth = "string"     -> <<"API Key">>
      [] auth = "GoogleAuth" -> <<"Service Account">>
      [] auth = "OAuth2"     -> <<"OAuth2">>
      [] OTHER               -> <<"Unknown">>

\* response.data.files?.length || 0
FilesCount(data) ==
    IF Get(data, "files").t = "arr" THEN Num(Len(Get(data, "files").a)) ELSE Num(0)

\* Mutant of SpreadsheetUrl: the id is not interpolated into the url.
SpreadsheetUrlLiteral(spreadsheetId) ==
    Str(<<"https://docs.google.com/spreadsheets/d/", "spreadsheetId", "/edit">>)

\* `https://docs.google.com/spreadsheets/d/${spreadsheetId}/edit`
SpreadsheetUrl(spreadsheetId) ==
    Str(<<"https://docs.google.com/spreadsheets/d/">>
        \o Template(spreadsheetId) \o <<"/edit">>)

Returned(method, p, data, self, now) ==
    CASE method = "createSpreadsheet" ->
            Obj(<< <<"spreadsheetId", Get(data, "spreadsheetId")>>,
                   <<"title", p[1]>>,
                   <<"url", SpreadsheetUrl(Get(data, "spreadsheetId"))>>,
                   <<"spreadsheet", data>> >>)
      [] method \in {"listSpreadsheets", "searchSpreadsheets"} ->
            Obj(<< <<"spreadsheets", Get(data, "files")>>,
                   <<"nextPageToken", Get(data, "nextPageToken")>> >>)
      [] method = "deleteSpreadsheet" ->
            Obj(<< <<"success", Bool(TRUE)>>,
                   <<"spreadsheetId", p[1]>>,
                   <<"message", Str(<<"Spreadsheet ">> \o Template(p[1])
                                    \o <<" successfully deleted">>)>> >>)
      [] method = "shareSpreadsheet" ->
            Obj(<< <<"success", Bool(TRUE)>>,
                   <<"spreadsheetId", p[1]>>,
                   <<"permission", data>> >>)
      [] method = "verifyConnection" ->
            Obj(<< <<"connected", Bool(TRUE)>>,
                   <<"projectId", Str(self.projectId)>>,
                   <<"timestamp", Str(now)>>,
                   <<"details",
                     Obj(<< <<"authType", Str(AuthType(self.auth))>>,
                            <<"apiVersion", Str(<<"v4">>)>>,
                            <<"spreadsheetCount", FilesCount(data)>> >>)>> >>)
      [] OTHER -> data

\* Mutant of Caught: the catch blocks report a fixed text, not error.message.
CaughtGeneric(method, p, error, self, now) ==
    Obj(<< <<"error", Str(<<"Request failed">>)>> >>)

\* Mutant of Caught: the catch blocks report the error itself (`${error}`),
\* not error.message.
CaughtWhole(method, p, error, self, now) ==
    Obj(<< <<"error", Str(<<"Error: ">> \o error.message)>> >>)

Caught(method, p, error, self, now) ==
    CASE method \in {"deleteSpreadsheet", "shareSpreadsheet"} ->
            Obj(<< <<"success", Bool(FALSE)>>,
                   <<"error", Str(error.message)>> >>)
      [] method = "verifyConnection" ->
            Obj(<< <<"connected", Bool(FALSE)>>,
                   <<"projectId", Str(self.projectId)>>,
                   <<"timestamp", Str(now)>>,
                   <<"error",
                     Obj(<< <<"message", Str(error.message)>>,
                            <<"code", OrElse(error.code, Str(<<"UNKNOWN_ERROR">>))>>,
                            <<"details", OrElse(error.details, Str(error.stack))>> >>)>> >>)
      [] OTHER -> Obj(<< <<"error", Str(error.message)>> >>)

(***************************************************************************)
(* Errors.  An Error object has a message, optionally a code and details,   *)
(* and a stack that starts with its message.                                *)
(***************************************************************************)
ErrorOf(message, code) ==
    [message |-> message, code |-> code, details |-> Undefined,
     stack   |-> <<"Error: ">> \o message \o <<NL, "    at <anonymous>">>]

\* ErrorCode.MethodNotFound of the MCP SDK.
MethodNotFound == -32601

\* new McpError(code, message): the SDK prefixes the message with the code.
McpError(code, message) ==
    ErrorOf(<<"MCP error ", ToString(code), ": ">> \o message, Num(code))

\* Calling a method the client object does not have.
NotAFunction(method) ==
    ErrorOf(<<"this.googleSheets.", method, " is not a function">>, Undefined)

(***************************************************************************)
(* The call-tool handler.  A run of handler code ends in one of three ways: *)
(* it returns a value, it throws, or it ends the process.                   *)
(***************************************************************************)
Return(value) == [kind |-> "return", value |-> value]
Throw(error)  == [kind |-> "throw", error |-> error]
Exit(code)    == [kind |-> "exit", code |-> code]

\* Mutant of SuccessEnvelope: the payload is wrapped in { result: ... }.
SuccessEnvelopeWrapped(result) ==
    [content |-> << [type |-> "text",
                     text |-> JSONstringify(Obj(<< <<"result", result>> >>))] >>]

\* return { content: [{ type: 'text', text: JSON.stringify(result, null, 2) }] }
SuccessEnvelope(result) ==
    [content |-> << [type |-> "text", text |-> JSONstringify(result)] >>]

\* Mutant of ErrorEnvelope: the text is the bare message, without the prefix.
ErrorEnvelopeBare(name, error) ==
    [content |-> << [type |-> "text", text |-> error.message] >>,
     isError |-> TRUE]

\* The envelope built by the catch block.
ErrorEnvelope(name, error) ==
    [content |-> << [type |-> "text",
                     text |-> <<"Google Sheets API error: ">> \o error.message] >>,
     isError |-> TRUE]

\* Mutant of Catch: the catch block rethrows.
CatchRethrow(name, error) == Throw(error)

\* Mutant of Catch: the catch block ends the process.
CatchExit(name, error) == Exit(1)

\* catch (error: any) { console.error(...); return { ..., isError: true } }
Catch(name, error) == Return(ErrorEnvelope(name, error))

\* The tail of every case: the backend operation returned `result`.
AfterBackend(name, result) == Return(SuccessEnvelope(result))

(***************************************************************************)
(* The environment: the requests a client sends, the answers of the remote  *)
(* service, the clock.                                                      *)
(***************************************************************************)
Ids == 1..MaxInFlight

UnknownNames == {"google_sheets_rename", "createSpreadsheet"}

RequestedNames == ToolNames \cup UnknownNames

SampleValue(name, field) ==
    CASE field = "title"            -> Str(<<"Budget">>)
      [] field = "sheets"           -> Arr(<< Str(<<"Q1">>), Str(<<"Q2">>) >>)
      [] field = "spreadsheetId"    -> Str(<<"X">>)
      [] field = "includeGridData"  -> Bool(TRUE)
      [] field = "range" /\ name = "google_sheets_format_cells" ->
            Obj(<< <<"startRowIndex", Num(0)>>, <<"endRowIndex", Num(1)>>,
                   <<"startColumnIndex", Num(0)>>, <<"endColumnIndex", Num(2)>> >>)
      [] field = "range"            -> Str(<<"Sheet1!A1:B1">>)
      [] field = "values"           -> Arr(<< Arr(<< Str(<<"a">>), Str(<<"b">>) >>) >>)
      [] field = "valueInputOption" -> Str(<<"RAW">>)
      [] field = "sheetTitle"       -> Str(<<"Sheet1">>)
      [] field = "sheetId"          -> Num(0)
      [] field = "pageSize"         -> Num(5)
      [] field = "pageToken"        -> Str(<<"page-2">>)
      [] field = "emailAddress"     -> Str(<<"a@example.com">>)
      [] field = "role"             -> Str(<<"writer">>)
      [] field = "query"            -> Str(<<"Budget">>)
      [] field = "format"           -> Obj(<< <<"textFormat", Obj(<< <<"bold", Bool(TRUE)>> >>)>> >>)
      [] field = "sheetName"        -> Str(<<"Sheet1">>)
      [] field = "data"             ->
            Obj(<< <<"headers", Arr(<< Str(<<"h1">>) >>)>>,
                   <<"rows", Arr(<< Arr(<< Str(<<"r1">>) >>) >>)>> >>)
      [] field = "clearExisting"    -> Bool(TRUE)

ArgumentsWith(name, fields) ==
    Obj([i \in 1..Len(fields) |-> <<fields[i], SampleValue(name, fields[i])>>])

\* request.params.arguments: absent, empty, the required fields, all fields.
ArgumentMaps(name) ==
    IF name \in ToolNames
    THEN {Undefined, Obj(<<>>),
          ArgumentsWith(name, Required(ToolNamed(name))),
          ArgumentsWith(name, PropertyNames(ToolNamed(name)))}
    ELSE {Undefined, ArgumentsWith(name, <<"spreadsheetId">>)}

\* The failures of a remote request: an API error whose message quotes a
\* name, and a network error without a code.
RemoteErrors ==
    { ErrorOf(<<"Invalid requests[0].addSheet: A sheet with the name ", DQ, "Sheet1", DQ,
                " already exists.">>, Num(400)),
      ErrorOf(<<"getaddrinfo ENOTFOUND sheets.googleapis.com">>, Undefined) }

DriveFile ==
    Obj(<< <<"id", Str(<<"X">>)>>, <<"name", Str(<<"Budget">>)>> >>)

\* response.data of a resolved remote request.
RemoteData(request) ==
    CASE request.api = "spreadsheets.create" ->
            { Obj(<< <<"spreadsheetId", Str(<<newId>>)>>,
                     <<"properties", Get(Get(request.params, "requestBody"), "properties")>> >>) :
                newId \in {"new-1", "new-2"} }
      [] request.api = "files.list" ->
            { Obj(<< <<"files", Arr(<<>>)>> >>),
              Obj(<< <<"nextPageToken", Str(<<"page-3">>)>>,
                     <<"files", Arr(<< DriveFile >>)>> >>) }
      [] request.api = "spreadsheets.values.get" ->
            { Obj(<< <<"range", Get(request.params, "range")>>,
                     <<"majorDimension", Str(<<"ROWS">>)>>,
                     <<"values", Arr(<< Arr(<< Str(<<"a">>), Str(<<"b">>) >>) >>)>> >>),
              Obj(<< <<"range", Get(request.params, "range")>>,
                     <<"majorDimension", Str(<<"ROWS">>)>> >>) }
      [] request.api = "files.delete" -> { Str(<<>>) }
      [] request.api = "permissions.create" ->
            { Obj(<< <<"id", Str(<<"perm-1">>)>>,
                     <<"role", Get(Get(request.params, "requestBody"), "role")>> >>) }
      [] OTHER ->
            { Obj(<< <<"spreadsheetId", Get(request.params, "spreadsheetId")>> >>) }

\* new Date().toISOString()
Timestamps == { <<"2024-01-01T00:00:00.000Z">>, <<"2024-01-01T00:00:01.000Z">> }

(***************************************************************************)
(* State.                                                                   *)
(***************************************************************************)
NoCall == [name |-> "none"]

NoResponse == [method |-> "none"]

NoOutcome == [kind |-> "none"]

NoError == [kind |-> "none"]

Running == [status |-> "running"]

\* The module is loaded with the given options and has not started yet.
Starting(options) == [status |-> "starting", options |-> options]

\* tempFilePath: string | null
Null == [t |-> "null"]

\* path.join(os.tmpdir(), `google-credentials-${randomId}.json`)
TempPath == Str(<<"/tmp/", "google-credentials-", "5f2a9c", ".json">>)

Exited(code, cause) == [status |-> "exited", code |-> code, cause |-> cause]

\* The signals the process listens for.
Signals == {"SIGINT", "SIGTERM"}

\* The client after a successful construction, for two of the start-up
\* configurations: an API key with a project ID, and the OAuth triple
\* without one.
\* The fields the client's constructor leaves set: the project ID, the auth
\* handle (with the key file it was given, if any), the two service clients
\* made from it, and the temporary file.
Built(projectId, auth, keyFile, tempFilePath) ==
    [projectId    |-> projectId,
     auth         |-> auth,
     keyFile      |-> keyFile,
     sheetsClient |-> [version |-> "v4", auth |-> auth],
     driveClient  |-> [version |-> "v3", auth |-> auth],
     tempFilePath |-> tempFilePath]

Clients ==
    { Built(<<"my-project">>, "string", Null, Null),
      Built(<<>>, "OAuth2", Null, Null) }

Init ==
    /\ pending = [id \in Ids |-> NoCall]
    /\ response = NoResponse
    /\ last = NoCall
    /\ process = Running
    /\ client \in Clients
    /\ reads = <<>>
    /\ transport = "connected"
    /\ tempFiles = {}

(***************************************************************************)
(* The end of a handler run for request `id`: what reaches the transport.   *)
(* A returned envelope is sent as the result of the request; an exception   *)
(* out of the handler is turned by the SDK into a JSON-RPC error; a         *)
(* process.exit ends the process and every call still in flight with it.    *)
(***************************************************************************)
Settle(id, history, completion) ==
    IF completion.kind = "return" THEN
        /\ response' = [method |-> "tools/call", id |-> id, result |-> completion.value]
        /\ last' = history
        /\ pending' = [pending EXCEPT ![id] = NoCall]
        /\ process' = process
    ELSE IF completion.kind = "throw" THEN
        /\ response' = [method |-> "tools/call", id |-> id, error |-> completion.error]
        /\ last' = history
        /\ pending' = [pending EXCEPT ![id] = NoCall]
        /\ process' = process
    ELSE
        /\ response' = NoResponse
        /\ last' = history
        /\ pending' = [i \in Ids |-> NoCall]
        /\ process' = Exited(completion.code, "tools/call")

History(name, args, invoked, requests, outcome, result, thrown) ==
    [name |-> name, args |-> args, invoked |-> invoked, requests |-> requests,
     outcome |-> outcome, result |-> result, thrown |-> thrown]

(***************************************************************************)
(* Actions.                                                                 *)
(***************************************************************************)
\* Mutant of ListTools: the handler leaves out the tools with a call in flight.
ListToolsIdle(id) ==
    /\ process = Running
    /\ response = NoResponse
    /\ pending[id] = NoCall
    /\ response' = [method |-> "tools/list", id |-> id,
                    result |-> [tools |-> SelectSeq(Tools,
                                   LAMBDA d : \A i \in Ids : pending[i].name # d.name)]]
    /\ last' = NoCall
    /\ UNCHANGED <<pending, process, client, reads, transport, tempFiles>>

\* The list-tools handler.
ListTools(id) ==
    /\ process = Running
    /\ response = NoResponse
    /\ pending[id] = NoCall
    /\ response' = [method |-> "tools/list", id |-> id, result |-> [tools |-> Tools]]
    /\ last' = NoCall
    /\ UNCHANGED <<pending, process, client, reads, transport, tempFiles>>

\* The call-tool handler, from the request to its first suspension: the
\* remote request of the backend operation the case calls.  The default
\* case, and a case whose method the client lacks, end in the catch block.
CallTool(id, name, arguments) ==
    /\ process = Running
    /\ response = NoResponse
    /\ pending[id] = NoCall
    /\ LET args == Coalesce(arguments, Obj(<<>>))
           case == SwitchOn(name)
       IN  IF case.label = "default" THEN
               LET error == McpError(MethodNotFound, <<"Unknown tool: ", name>>)
               IN  Settle(id,
                          History(name, args, <<>>, <<>>, NoOutcome, Undefined, error),
                          Catch(name, error))
           ELSE IF case.method \notin MethodNames THEN
               LET error == NotAFunction(case.method)
               IN  Settle(id,
                          History(name, args, <<>>, <<>>, NoOutcome, Undefined, error),
                          Catch(name, error))
           ELSE
               LET actuals == [i \in 1..Len(case.fields) |-> Get(args, case.fields[i])]
                   p == Parameters(case.method, actuals)
               IN  /\ pending' = [pending EXCEPT ![id] =
                                    [name |-> name, args |-> args,
                                     method |-> case.method, p |-> p,
                                     invoked |-> <<case.method>>,
                                     requests |-> <<RemoteRequest(case.method, p)>>]]
                   /\ response' = NoResponse
                   /\ last' = NoCall
                   /\ process' = process
    /\ UNCHANGED <<client, reads, transport, tempFiles>>

\* Mutant of RemoteResolve: the arguments are kept in a field shared by all
\* calls, so the payload is built from the call with the highest id in flight.
RemoteResolveShared(id, now) ==
    /\ process = Running
    /\ response = NoResponse
    /\ pending[id] # NoCall
    /\ \E data \in RemoteData(pending[id].requests[Len(pending[id].requests)]) :
         LET c == pending[id]
             shared == pending[CHOOSE i \in Ids :
                                 /\ pending[i] # NoCall
                                 /\ \A j \in Ids : pending[j] # NoCall => j <= i]
             result == Returned(shared.method, shared.p, data, client, now)
         IN  Settle(id,
                    History(c.name, c.args, c.invoked, c.requests,
                            [kind |-> "resolved", data |-> data], result, NoError),
                    AfterBackend(c.name, result))
    /\ UNCHANGED <<client, reads, transport, tempFiles>>

\* Mutant of RemoteResolve: the payload is stamped with the time of the answer.
RemoteResolveStamped(id, now) ==
    /\ process = Running
    /\ response = NoResponse
    /\ pending[id] # NoCall
    /\ \E data \in RemoteData(pending[id].requests[Len(pending[id].requests)]) :
         LET c == pending[id]
             result == Obj(<< <<"fetchedAt", Str(now)>>,
                              <<"data", Returned(c.method, c.p, data, client, now)>> >>)
         IN  Settle(id,
                    History(c.name, c.args, c.invoked, c.requests,
                            [kind |-> "resolved", data |-> data], result, NoError),
                    AfterBackend(c.name, result))
    /\ UNCHANGED <<client, reads, transport, tempFiles>>

\* The remote request of call `id` resolves: the backend operation returns
\* from its try block and the handler wraps what it returned.
RemoteResolve(id, now) ==
    /\ process = Running
    /\ response = NoResponse
    /\ pending[id] # NoCall
    /\ \E data \in RemoteData(pending[id].requests[Len(pending[id].requests)]) :
         LET c == pending[id]
             result == Returned(c.method, c.p, data, client, now)
         IN  Settle(id,
                    History(c.name, c.args, c.invoked, c.requests,
                            [kind |-> "resolved", data |-> data], result, NoError),
                    AfterBackend(c.name, result))
    /\ UNCHANGED <<client, reads, transport, tempFiles>>

\* Mutant of RemoteReject: the backend operation repeats a failed request once.
RemoteRejectRetry(id, error, now) ==
    /\ process = Running
    /\ response = NoResponse
    /\ pending[id] # NoCall
    /\ IF Len(pending[id].requests) = 1 THEN
            /\ pending' = [pending EXCEPT ![id].requests = @ \o @]
            /\ UNCHANGED <<response, last, process>>
       ELSE
            LET c == pending[id]
                result == Caught(c.method, c.p, error, client, now)
            IN  Settle(id,
                       History(c.name, c.args, c.invoked, c.requests,
                               [kind |-> "rejected", error |-> error], result, NoError),
                       AfterBackend(c.name, result))
    /\ UNCHANGED <<client, reads, transport, tempFiles>>

\* Mutant of RemoteReject: the handler gives up a call whose request failed
\* without answering it.
RemoteRejectSilent(id, error, now) ==
    /\ process = Running
    /\ response = NoResponse
    /\ pending[id] # NoCall
    /\ pending' = [pending EXCEPT ![id] = NoCall]
    /\ UNCHANGED <<response, last, process, client, reads, transport, tempFiles>>

\* As RemoteReject, but the failed operation drops the client's auth handle.
RemoteRejectResetsAuth(id, error, now) ==
    /\ process = Running
    /\ response = NoResponse
    /\ pending[id] # NoCall
    /\ LET c == pending[id]
           result == Caught(c.method, c.p, error, client, now)
       IN  Settle(id,
                  History(c.name, c.args, c.invoked, c.requests,
                          [kind |-> "rejected", error |-> error], result, NoError),
                  AfterBackend(c.name, result))
    /\ client' = [client EXCEPT !.auth = "none"]
    /\ UNCHANGED <<reads, transport, tempFiles>>

\* The remote request of call `id` rejects: the backend operation returns
\* from its catch block and the handler wraps what it returned.
RemoteReject(id, error, now) ==
    /\ process = Running
    /\ response = NoResponse
    /\ pending[id] # NoCall
    /\ LET c == pending[id]
           result == Caught(c.method, c.p, error, client, now)
       IN  Settle(id,
                  History(c.name, c.args, c.invoked, c.requests,
                          [kind |-> "rejected", error |-> error], result, NoError),
                  AfterBackend(c.name, result))
    /\ UNCHANGED <<client, reads, transport, tempFiles>>

\* The transport writes the response to stdout.  The write follows the
\* handler's return in the same turn of the event loop, before any other
\* message, remote answer or signal is handled.
Send ==
    /\ response # NoResponse
    /\ response' = NoResponse
    /\ last' = NoCall
    /\ UNCHANGED <<pending, process, client, reads, transport, tempFiles>>

\* The transport writes the response to stdout and the caller keeps it when
\* it answers a get_values call (up to MaxReads answers): the arguments, the
\* outcome of the remote request, which stands for the state of the range
\* at the service, and the text of the envelope.
Receive ==
    /\ response # NoResponse
    /\ response' = NoResponse
    /\ last' = NoCall
    /\ reads' = IF /\ "result" \in DOMAIN response
                   /\ last # NoCall
                   /\ last.name = "google_sheets_get_values"
                   /\ Len(reads) < MaxReads
                THEN Append(reads, [args |-> last.args, outcome |-> last.outcome,
                                    text |-> response.result.content[1].text])
                ELSE reads
    /\ UNCHANGED <<pending, process, client, transport, tempFiles>>

\* As Cleanup, but the path is forgotten without the file being deleted.
CleanupForgets(self, disk, unlinked) ==
    IF self.tempFilePath # Null /\ self.tempFilePath \in disk /\ unlinked
    THEN [client |-> [self EXCEPT !.tempFilePath = Null],
          files  |-> disk]
    ELSE [client |-> self, files |-> disk]

\* cleanup(): the client after it and the files left on disk; `unlinked`
\* tells whether fs.unlinkSync succeeds (a failure is caught and logged).
Cleanup(self, disk, unlinked) ==
    IF self.tempFilePath # Null /\ self.tempFilePath \in disk /\ unlinked
    THEN [client |-> [self EXCEPT !.tempFilePath = Null],
          files  |-> disk \ {self.tempFilePath}]
    ELSE [client |-> self, files |-> disk]

\* The outcomes of fs.unlinkSync in a run of cleanup(): success or failure
\* when it is called, and nothing to tell apart when it is not.
Unlinks(self, disk) ==
    IF self.tempFilePath # Null /\ self.tempFilePath \in disk THEN BOOLEAN ELSE {TRUE}

\* The listeners of a signal, in the order of their registration: the
\* client's constructor runs before the server's setupErrorHandling().
Listeners(sig) ==
    IF sig = "SIGINT" THEN <<"client", "server">> ELSE <<"client">>

\* The signal's listeners are called in order, each to its return.  The
\* client's listener runs cleanup() and process.exit(0), after which no
\* further listener is called; the server's listener calls server.close()
\* and returns at its await, the close still under way.
RECURSIVE Emit(_, _, _)
Emit(listeners, s, unlinked) ==
    IF listeners = <<>> \/ s.exited
    THEN s
    ELSE Emit(Tail(listeners),
              IF Head(listeners) = "client"
              THEN LET c == Cleanup(s.client, s.files, unlinked)
                   IN  [s EXCEPT !.client = c.client, !.files = c.files,
                                 !.exited = TRUE]
              ELSE [s EXCEPT !.transport = "closing"],
              unlinked)

\* SIGINT or SIGTERM: the listeners run in order until one of them calls
\* process.exit(0), which emits 'exit', whose listener runs cleanup() again,
\* and ends the process.
Signal(sig) ==
    /\ process = Running
    /\ response = NoResponse
    /\ process' = Exited(0, sig)
    /\ pending' = [i \in Ids |-> NoCall]
    /\ response' = NoResponse
    /\ last' = NoCall
    /\ \E first \in Unlinks(client, tempFiles) :
         LET bySignal == Emit(Listeners(sig),
                              [client |-> client, files |-> tempFiles,
                               transport |-> transport, exited |-> FALSE],
                              first)
         IN  \E second \in Unlinks(bySignal.client, bySignal.files) :
               LET byExit == Cleanup(bySignal.client, bySignal.files, second)
               IN  /\ bySignal.exited
                   /\ client' = byExit.client
                   /\ tempFiles' = byExit.files
                   /\ transport' = bySignal.transport
    /\ UNCHANGED reads

\* The readings of the clock that can tell two answers of call `id` apart:
\* of the backend operations verifyConnection alone reads it (new Date()),
\* so the other operations are given one reading.
Clock(id) ==
    IF pending[id] # NoCall /\ pending[id].method = "verifyConnection"
    THEN Timestamps
    ELSE {CHOOSE now \in Timestamps : TRUE}

Next ==
    \/ \E id \in Ids : ListTools(id)
    \/ \E id \in Ids : \E name \in RequestedNames :
            \E arguments \in ArgumentMaps(name) : CallTool(id, name, arguments)
    \/ \E id \in Ids : \E now \in Clock(id) : RemoteResolve(id, now)
    \/ \E id \in Ids : \E error \in RemoteErrors : \E now \in Clock(id) :
            RemoteReject(id, error, now)
    \/ Send
    \/ \E sig \in {"SIGINT", "SIGTERM"} : Signal(sig)

Spec == Init /\ [][Next]_vars

\* The remote service answers the request of call `id`, with a result or
\* with a failure.
RemoteAnswers(id) ==
    \/ \E now \in Timestamps : RemoteResolve(id, now)
    \/ \E error \in RemoteErrors : \E now \in Timestamps : RemoteReject(id, error, now)

\* A caller of three tools, one for each path through the handler: a case
\* that awaits a backend operation, the case whose method the client lacks,
\* and the default case.
LiveNames == {"google_sheets_get_values", "write_to_sheet", "google_sheets_rename"}

NextLive ==
    \/ \E id \in Ids : ListTools(id)
    \/ \E id \in Ids : \E name \in LiveNames :
            \E arguments \in ArgumentMaps(name) : CallTool(id, name, arguments)
    \/ \E id \in Ids : RemoteAnswers(id)
    \/ Send
    \/ \E sig \in {"SIGINT", "SIGTERM"} : Signal(sig)

\* Fairness: the transport writes a response it was handed, and the remote
\* service answers every request issued to it.  The answer of a request is
\* handled in a turn of the event loop of its own, between the turns of
\* other messages, hence strong fairness: a turn in which another response
\* is on its way out does not postpone the answer for ever.
SpecLive ==
    /\ Init
    /\ [][NextLive]_vars
    /\ WF_vars(Send)
    /\ \A id \in Ids : SF_vars(RemoteAnswers(id))

\* A caller that only reads: it calls get_values and, before and between,
\* verify_connection, which leaves the state of the service as it is, and
\* it keeps the answers to its get_values calls.
ReadTools == {"google_sheets_get_values", "google_sheets_verify_connection"}

NextReads ==
    \/ \E id \in Ids : \E name \in ReadTools :
            \E arguments \in ArgumentMaps(name) : CallTool(id, name, arguments)
    \/ \E id \in Ids : \E now \in Timestamps : RemoteResolve(id, now)
    \/ \E id \in Ids : \E error \in RemoteErrors : \E now \in Timestamps :
            RemoteReject(id, error, now)
    \/ Receive

SpecReads == Init /\ [][NextReads]_vars

(***************************************************************************)
(* Start-up: the module's top level, the two constructors and run().       *)
(***************************************************************************)

\* The options, each the command-line value or else the environment's.
OptionNames ==
    {"serviceAccountPath", "serviceAccountJson", "apiKey", "projectId",
     "oauthClientId", "oauthClientSecret", "oauthRefreshToken"}

\* The values an option is started with: absent, empty (for two of them) or
\* a value.
OptionValues(option) ==
    CASE option = "apiKey"    -> {Undefined, Str(<<>>), Str(<<"key">>)}
      [] option = "projectId" -> {Undefined, Str(<<>>), Str(<<"my-project">>)}
      [] OTHER                -> {Undefined, Str(<<"given">>)}

Configurations ==
    { o \in [OptionNames -> {Undefined, Str(<<>>), Str(<<"key">>),
                             Str(<<"my-project">>), Str(<<"given">>)}] :
        \A option \in OptionNames : o[option] \in OptionValues(option) }

\* if (v): the value is truthy.
Truthy(v) == OrElse(v, Bool(FALSE)) # Bool(FALSE)

\* As OAuthTriple, but the refresh token is not asked for.
OAuthPair(o) ==
    /\ Truthy(o.oauthClientId)
    /\ Truthy(o.oauthClientSecret)

\* oauthClientId && oauthClientSecret && oauthRefreshToken
OAuthTriple(o) ==
    /\ Truthy(o.oauthClientId)
    /\ Truthy(o.oauthClientSecret)
    /\ Truthy(o.oauthRefreshToken)

\* The two checks at the module's top level: one of them throws.
ModuleThrows(o) ==
    \/ /\ ~Truthy(o.serviceAccountPath)
       /\ ~Truthy(o.serviceAccountJson)
       /\ ~Truthy(o.apiKey)
       /\ ~OAuthTriple(o)
    \/ ~Truthy(o.projectId) /\ ~OAuthTriple(o)

\* The client before its constructor has set a field.
Unbuilt == [projectId |-> <<>>, auth |-> "undefined", tempFilePath |-> Null]

\* What the client's constructor has done when it returns or throws: the
\* fields it set and the files on disk.  `writeOk` tells whether
\* fs.writeFileSync succeeds and `keyFileExists` what fs.existsSync answers.
Thrown(self, disk) == [threw |-> TRUE, client |-> self, files |-> disk]

Constructed(self, disk) == [threw |-> FALSE, client |-> self, files |-> disk]

Construct(o, isOAuth, disk, writeOk, keyFileExists) ==
    LET projectId == OrElse(o.projectId, Str(<<>>)).s
    IN  IF ~Truthy(o.projectId) /\ ~isOAuth
        THEN Thrown([Unbuilt EXCEPT !.projectId = projectId], disk)
        ELSE IF /\ ~Truthy(o.apiKey)
                /\ ~Truthy(o.serviceAccountPath)
                /\ ~Truthy(o.serviceAccountJson)
                /\ ~OAuthTriple(o)
        THEN Thrown([Unbuilt EXCEPT !.projectId = projectId], disk)
        ELSE IF Truthy(o.apiKey)
        THEN Constructed(Built(projectId, "string", Null, Null), disk)
        ELSE IF Truthy(o.serviceAccountJson)
        THEN IF writeOk
             THEN Constructed(Built(projectId, "GoogleAuth", TempPath, TempPath),
                              disk \cup {TempPath})
             ELSE Thrown([Unbuilt EXCEPT !.projectId = projectId,
                                         !.tempFilePath = TempPath], disk)
        ELSE IF Truthy(o.serviceAccountPath)
        THEN IF keyFileExists
             THEN Constructed(Built(projectId, "GoogleAuth", o.serviceAccountPath, Null), disk)
             ELSE Thrown([Unbuilt EXCEPT !.projectId = projectId], disk)
        ELSE Constructed(Built(projectId, "OAuth2", Null, Null), disk)

\* The exception leaves the module uncaught: the process exits with code 1.
Uncaught == Exited(1, "uncaughtException")

\* The module is evaluated: the checks of the top level, the server's
\* constructor (which builds the client) and run(), which connects the
\* transport.  A throw ends the process before the transport is connected;
\* if the client's constructor threw, its exit listener runs cleanup().
Start ==
    /\ process.status = "starting"
    /\ LET o == process.options
       IN  IF ModuleThrows(o)
           THEN /\ process' = Uncaught
                /\ UNCHANGED <<client, transport, tempFiles>>
           ELSE \E writeOk \in BOOLEAN, keyFileExists \in BOOLEAN :
                  LET c == Construct(o, OAuthTriple(o), tempFiles, writeOk, keyFileExists)
                  IN  IF c.threw
                      THEN \E unlinked \in Unlinks(c.client, c.files) :
                             LET atExit == Cleanup(c.client, c.files, unlinked)
                             IN  /\ process' = Uncaught
                                 /\ client' = atExit.client
                                 /\ tempFiles' = atExit.files
                                 /\ UNCHANGED transport
                      ELSE /\ process' = Running
                           /\ client' = c.client
                           /\ tempFiles' = c.files
                           /\ transport' = "connected"
    /\ UNCHANGED <<pending, response, last, reads>>

\* Nothing is left to wait for (the caller closed stdin and no call is in
\* flight): the process ends with code 0 and emits 'exit', whose listener
\* runs cleanup().
ProcessEnd ==
    /\ process = Running
    /\ response = NoResponse
    /\ \A id \in Ids : pending[id] = NoCall
    /\ process' = Exited(0, "exit")
    /\ \E unlinked \in Unlinks(client, tempFiles) :
         LET atExit == Cleanup(client, tempFiles, unlinked)
         IN  /\ client' = atExit.client
             /\ tempFiles' = atExit.files
    /\ UNCHANGED <<pending, response, last, reads, transport>>

InitStart ==
    /\ pending = [id \in Ids |-> NoCall]
    /\ response = NoResponse
    /\ last = NoCall
    /\ process \in {Starting(o) : o \in Configurations}
    /\ client = Unbuilt
    /\ reads = <<>>
    /\ transport = "none"
    /\ tempFiles = {}

\* The caller of a started server: lists the tools, verifies the connection
\* and calls a name the switch does not know.
StartNames == {"google_sheets_verify_connection", "google_sheets_rename"}

NextStart ==
    \/ Start
    \/ \E id \in Ids : ListTools(id)
    \/ \E id \in Ids : \E name \in StartNames :
            \E arguments \in ArgumentMaps(name) : CallTool(id, name, arguments)
    \/ \E id \in Ids : RemoteAnswers(id)
    \/ Send
    \/ \E sig \in Signals : Signal(sig)
    \/ ProcessEnd

SpecStart == InitStart /\ [][NextStart]_vars

(***************************************************************************)
(* Vocabulary of the properties.                                            *)
(***************************************************************************)
\* A call has just been answered and its response is being written.
Completed == last # NoCall

\* The response carries a result (not a JSON-RPC error).
Answered == Completed /\ "result" \in DOMAIN response

IsTextBlock(b) == DOMAIN b = {"type", "text"} /\ b.type = "text"

\* A ResultEnvelope: text content blocks and an optional isError flag.
IsEnvelope(v) ==
    /\ "content" \in DOMAIN v
    /\ DOMAIN v \subseteq {"content", "isError"}
    /\ \A i \in 1..Len(v.content) : IsTextBlock(v.content[i])

IsError(env) == "isError" \in DOMAIN env /\ env.isError = TRUE

Text(env) == env.content[1].text

\* `part` occurs in `text` as a contiguous piece.
Contains(text, part) ==
    \E i \in 0..(Len(text) - Len(part)) : SubSeq(text, i + 1, i + Len(part)) = part

IsUnknownToolEnvelope(env, name) ==
    IsError(env) /\ Contains(Text(env), <<"Unknown tool: ", name>>)

\* The argument map lacks a field the tool's inputSchema declares required.
MissingRequired(name, args) ==
    \E f \in Range(Required(ToolNamed(name))) : Get(args, f) = Undefined

\* The one tool whose backend operation is documented as a two-step sequence.
CompositeTools == {"write_to_sheet"}

(***************************************************************************)
(* Properties.                                                              *)
(***************************************************************************)

\* C1: every answered call is answered with a ResultEnvelope; no response
\* is ever a JSON-RPC error made from an exception the handler let out,
\* also when the tool is unknown or the client lacks the method.
C1_AlwaysEnvelope ==
    /\ "error" \notin DOMAIN response
    /\ Completed => /\ "result" \in DOMAIN response
                    /\ IsEnvelope(response.result)
                    /\ Len(response.result.content) >= 1

\* C1 witness: a call whose case calls a method the client does not have
\* was answered with an error envelope.
C1_Witness ==
    /\ Answered
    /\ last.name = "write_to_sheet"
    /\ last.thrown # NoError
    /\ IsError(response.result)

\* C2: a call naming a tool outside the catalogue gets the unknown-tool
\* error envelope (isError true, a text with "Unknown tool: " and the name),
\* invokes no backend operation and is never suspended at a remote request;
\* a call naming a catalogued tool never gets an error envelope whose text
\* holds the requested name.
C2_UnknownToolOnly ==
    /\ \A id \in Ids : pending[id] # NoCall => pending[id].name \in ToolNames
    /\ (Answered /\ last.name \notin ToolNames) =>
         /\ IsUnknownToolEnvelope(response.result, last.name)
         /\ last.invoked = <<>>
         /\ last.requests = <<>>
    /\ (Answered /\ last.name \in ToolNames) =>
         ~(IsError(response.result) /\ last.name \in Range(Text(response.result)))

\* C2 witness: a call naming a client method, which is no tool name, got the
\* unknown-tool envelope.
C2_Witness ==
    /\ Answered
    /\ last.name = "createSpreadsheet"
    /\ IsUnknownToolEnvelope(response.result, last.name)

\* C3 (as claimed): isError is true whenever the remote service failed the
\* call and absent or false whenever the operation succeeded.
C3_IsErrorTellsFailure ==
    Answered =>
        /\ last.outcome.kind = "rejected" => IsError(response.result)
        /\ last.outcome.kind = "resolved" => ~IsError(response.result)

\* C4 (as claimed): the message of a remote failure appears verbatim in the
\* text of the envelope.
C4_MessageVerbatim ==
    (Answered /\ last.outcome.kind = "rejected") =>
        Contains(Text(response.result), last.outcome.error.message)

\* C4 (amended): the message of a remote failure appears in the text of the
\* envelope as a JSON string literal, that is between double quotes and with
\* the characters JSON escapes written as escape sequences.
C4_MessageAsJsonString ==
    (Answered /\ last.outcome.kind = "rejected") =>
        Contains(Text(response.result), Quote(last.outcome.error.message))

\* C4 witness: a remote failure whose message holds a double quote was
\* answered.
C4_Witness ==
    /\ Answered
    /\ last.outcome.kind = "rejected"
    /\ DQ \in Range(last.outcome.error.message)
    /\ Contains(Text(response.result), Quote(last.outcome.error.message))

\* C5 (as claimed): the text of an error envelope is the message of the
\* caught exception after a context that names the tool whose call failed.
C5_ContextNamesTool ==
    (Answered /\ IsError(response.result)) =>
        LET text == Text(response.result)
            n    == Len(text) - Len(last.thrown.message)
        IN  /\ last.thrown # NoError
            /\ n >= 1
            /\ SubSeq(text, n + 1, Len(text)) = last.thrown.message
            /\ last.name \in Range(SubSeq(text, 1, n))

\* C5 (amended): the text of an error envelope is the message of the caught
\* exception after the fixed prefix "Google Sheets API error: ", the same
\* for every tool.
C5_FixedPrefix ==
    (Answered /\ IsError(response.result)) =>
        /\ last.thrown # NoError
        /\ Text(response.result) = <<"Google Sheets API error: ">> \o last.thrown.message

\* C5 witness: an unknown-tool call was answered with an error envelope.
C5_Witness ==
    /\ Answered
    /\ last.name = "google_sheets_rename"
    /\ IsError(response.result)
    /\ last.thrown = McpError(MethodNotFound, <<"Unknown tool: ", "google_sheets_rename">>)

\* C6: every envelope has exactly one content block, of type text; when the
\* remote request succeeded the text is JSON.stringify(payload, null, 2) of
\* the payload the backend operation returned, and isError is absent.
C6_SingleTextBlock ==
    Answered =>
        /\ Len(response.result.content) = 1
        /\ IsTextBlock(response.result.content[1])
        /\ last.outcome.kind = "resolved" =>
              /\ Text(response.result) = JSONstringify(last.result)
              /\ "isError" \notin DOMAIN response.result

\* C6 witness: a successful list call whose payload holds a spreadsheet and
\* a next-page token was answered.
C6_Witness ==
    /\ Answered
    /\ last.name = "google_sheets_list"
    /\ last.outcome.kind = "resolved"
    /\ Get(last.result, "nextPageToken") = Str(<<"page-3">>)
    /\ Contains(Text(response.result), <<DQ, "nextPageToken", DQ, ": ", DQ, "page-3", DQ>>)

\* C7: every list-tools response carries the same ordered sequence, the
\* catalogue, whatever was handled before, and a list-tools step changes
\* nothing but the response.
C7_ListToolsConstant ==
    /\ [](response.method = "tools/list" => response.result = [tools |-> Tools])
    /\ [][(response'.method = "tools/list" /\ response.method # "tools/list")
            => UNCHANGED <<pending, process, client>>]_vars

\* C7 witness: the catalogue was listed while a call was in flight.
C7_Witness ==
    /\ response.method = "tools/list"
    /\ response.result.tools = Tools
    /\ \E id \in Ids : pending[id] # NoCall

\* C8 (as claimed): a call to a catalogued tool whose arguments lack a
\* required field invokes no backend operation and gets an error envelope.
C8_MissingRequiredRejected ==
    /\ \A id \in Ids :
         pending[id] # NoCall => ~MissingRequired(pending[id].name, pending[id].args)
    /\ (Answered /\ last.name \in ToolNames /\ MissingRequired(last.name, last.args)) =>
         last.invoked = <<>> /\ IsError(response.result)

C10_StaysAvailable ==
    /\ process.status = "exited" => process.cause \in Signals
    /\ (process = Running /\ response = NoResponse /\ \E id \in Ids : pending[id] = NoCall)
         => ENABLED (\E id \in Ids : \E name \in RequestedNames :
                        \E arguments \in ArgumentMaps(name) : CallTool(id, name, arguments))
    /\ (process = Running /\ response # NoResponse) => ENABLED Send

\* C10 witness: an exception was raised and caught inside the handler while
\* another call was in flight, and the process is running.
C10_Witness ==
    /\ Answered
    /\ last.thrown # NoError
    /\ \E id \in Ids : pending[id] # NoCall
    /\ process = Running

\* The envelope the handler builds from one call's own tool name, arguments
\* and backend answer (history h), and from nothing else but the client
\* handle and the clock.
OwnEnvelope(h, self, now) ==
    LET case == SwitchOn(h.name)
    IN  IF case.label = "default"
        THEN ErrorEnvelope(h.name, McpError(MethodNotFound, <<"Unknown tool: ", h.name>>))
        ELSE IF case.method \notin MethodNames
        THEN ErrorEnvelope(h.name, NotAFunction(case.method))
        ELSE LET p == Parameters(case.method,
                                 [i \in 1..Len(case.fields) |-> Get(h.args, case.fields[i])])
             IN  SuccessEnvelope(
                    IF h.outcome.kind = "resolved"
                    THEN Returned(case.method, p, h.outcome.data, self, now)
                    ELSE Caught(case.method, p, h.outcome.error, self, now))

\* The remote request a call issues, from its own tool name and arguments.
OwnRequest(name, args) ==
    LET case == SwitchOn(name)
    IN  RemoteRequest(case.method,
                      Parameters(case.method,
                                 [i \in 1..Len(case.fields) |-> Get(args, case.fields[i])]))

\* C11: with several calls in flight, answered in any order, the remote
\* request and the envelope of every call are built from that call's own
\* tool name, arguments and backend answer only, and a step that starts or
\* answers one call leaves every other call in flight as it was.
C11_CallsIsolated ==
    /\ [](\A id \in Ids : pending[id] # NoCall =>
                pending[id].requests = <<OwnRequest(pending[id].name, pending[id].args)>>)
    /\ [](Answered => \E now \in Timestamps :
                response.result = OwnEnvelope(last, client, now))
    /\ [][\A id \in Ids :
            (pending[id] # NoCall /\ process' = Running) =>
                \/ pending'[id] = pending[id]
                \/ /\ pending'[id] = NoCall
                   /\ "id" \in DOMAIN response' /\ response'.id = id
                   /\ last'.name = pending[id].name
                   /\ last'.args = pending[id].args]_vars

\* C11 witness: the call with id 1 was answered from the backend's answer
\* while a call to another tool, with other arguments, was still in flight
\* (the symmetric state, id 2 answered first, is reachable in the same way).
C11_Witness ==
    /\ Answered
    /\ response.id = 1
    /\ last.outcome.kind = "resolved"
    /\ last.name = "google_sheets_create"
    /\ pending[2] # NoCall
    /\ pending[2].name = "google_sheets_share"
    /\ pending[2].args # last.args

\* The i-th remote request of history h resolved: a backend operation issues
\* a request after the one before it resolved, and h.outcome is the outcome
\* of the last one.
RequestResolved(h, i) ==
    \/ i < Len(h.requests)
    \/ i = Len(h.requests) /\ h.outcome.kind = "resolved"

ClearRequests(h) ==
    {i \in 1..Len(h.requests) : h.requests[i].api = "spreadsheets.values.clear"}

WriteRequests(h) ==
    {i \in 1..Len(h.requests) :
        h.requests[i].api \in {"spreadsheets.values.update", "spreadsheets.values.append"}}

ClearExisting(args) == Get(args, "clearExisting") = Bool(TRUE)

\* The rows of the combined write: the header row, then the data rows.
HeaderThenRows(data) == Arr(<<Get(data, "headers")>> \o Get(data, "rows").a)

\* C12 (as claimed): a write_to_sheet call with clearExisting true, against
\* a remote service that accepts the clear and fails the write, leaves the
\* target range cleared (the clear request was issued and resolved) and is
\* answered with an envelope whose isError is true.
C12_PartialFailureReported ==
    (/\ Completed
     /\ last.name = "write_to_sheet"
     /\ ClearExisting(last.args)
     /\ \A i \in ClearRequests(last) : RequestResolved(last, i)
     /\ \A i \in WriteRequests(last) : ~RequestResolved(last, i))
    => /\ \E i \in ClearRequests(last) : RequestResolved(last, i)
       /\ Answered /\ IsError(response.result)

\* C13 (as claimed): a write_to_sheet call given its required arguments
\* issues the clear request first, and the write after it resolved, when
\* clearExisting is true, no clear request otherwise, and one write request
\* whose rows are the headers followed by the data rows.
C13_ClearThenWrite ==
    (/\ Completed
     /\ last.name = "write_to_sheet"
     /\ ~MissingRequired(last.name, last.args))
    => /\ IF ClearExisting(last.args)
          THEN /\ ClearRequests(last) = {1}
               /\ WriteRequests(last) \subseteq {2}
               /\ RequestResolved(last, 1) => WriteRequests(last) = {2}
          ELSE /\ ClearRequests(last) = {}
               /\ WriteRequests(last) = {1}
       /\ Len(last.requests) = Cardinality(ClearRequests(last) \cup WriteRequests(last))
       /\ \A i \in WriteRequests(last) :
              Get(Get(last.requests[i].params, "requestBody"), "values")
                = HeaderThenRows(Get(last.args, "data"))

\* The catalogue table of the specification: name, required arguments, and
\* the required members of an argument that is itself an object.
Row(name, required, nested) == [name |-> name, required |-> required, nested |-> nested]

RangeMembers == {"startRowIndex", "endRowIndex", "startColumnIndex", "endColumnIndex"}

CatalogueTable ==
    { Row("create", {"title"}, {}),
      Row("get", {"spreadsheetId"}, {}),
      Row("update_values", {"spreadsheetId", "range", "values"}, {}),
      Row("append_values", {"spreadsheetId", "range", "values"}, {}),
      Row("get_values", {"spreadsheetId", "range"}, {}),
      Row("clear_values", {"spreadsheetId", "range"}, {}),
      Row("add_sheet", {"spreadsheetId", "sheetTitle"}, {}),
      Row("delete_sheet", {"spreadsheetId", "sheetId"}, {}),
      Row("list", {}, {}),
      Row("delete", {"spreadsheetId"}, {}),
      Row("share", {"spreadsheetId", "emailAddress"}, {}),
      Row("search", {"query"}, {}),
      Row("format_cells", {"spreadsheetId", "sheetId", "range", "format"},
          {<<"range", RangeMembers>>}),
      Row("verify_connection", {}, {}),
      Row("write_to_sheet", {"spreadsheetId", "sheetName", "data"},
          {<<"data", {"headers", "rows"}>>}) }

\* The name under which the code lists the tool of a table row.
ListedName(short) ==
    IF short = "write_to_sheet" THEN short ELSE "google_sheets_" \o short

\* The table row a listed descriptor amounts to.
RowOf(tool) ==
    LET props == tool.inputSchema.properties
    IN  Row(tool.name,
            Range(Required(tool)),
            {<<props[i][1], Range(props[i][2].required)>> :
                i \in {j \in 1..Len(props) : "required" \in DOMAIN props[j][2]}})

\* C14 (as claimed): the listed catalogue is exactly the 15 tools of the
\* table, under the names of the table, each with the required arguments of
\* its row.
C14_CatalogueAsTabled ==
    response.method = "tools/list" =>
        /\ Len(response.result.tools) = 15
        /\ {RowOf(response.result.tools[i]) : i \in 1..Len(response.result.tools)}
             = CatalogueTable

\* C14 (amended): the listed catalogue is exactly the 15 tools of the table,
\* each with the required arguments of its row, under the name of the table
\* prefixed with "google_sheets_", except write_to_sheet which is listed
\* under that very name.
C14_CatalogueWithPrefix ==
    response.method = "tools/list" =>
        /\ Len(response.result.tools) = 15
        /\ {RowOf(response.result.tools[i]) : i \in 1..Len(response.result.tools)}
             = {Row(ListedName(r.name), r.required, r.nested) : r \in CatalogueTable}

\* C14 witness: the catalogue was listed, and in it the share tool, whose
\* role argument is optional.
C14_Witness ==
    /\ response.method = "tools/list"
    /\ \E i \in 1..Len(response.result.tools) :
            /\ response.result.tools[i].name = "google_sheets_share"
            /\ "role" \in Range(PropertyNames(response.result.tools[i]))
            /\ "role" \notin Range(Required(response.result.tools[i]))

\* C18: no two descriptors of a listed catalogue share a name.
C18_NamesUnique ==
    response.method = "tools/list" =>
        \A i \in 1..Len(response.result.tools) :
            \A j \in 1..Len(response.result.tools) :
                i # j => response.result.tools[i].name # response.result.tools[j].name

\* C18 witness: a catalogue of several descriptors was listed, as many as
\* there are names in it.
C18_Witness ==
    /\ response.method = "tools/list"
    /\ Len(response.result.tools) > 1
    /\ Cardinality({response.result.tools[i].name : i \in 1..Len(response.result.tools)})
         = Len(response.result.tools)

\* The fields of `args` a switch case passes for parameters that its backend
\* operation declares without a default value and not optional.
MandatoryFields(case) ==
    {case.fields[i] :
        i \in {j \in 1..Len(case.fields) :
                  /\ MethodNamed(case.method).defaults[j] = Undefined
                  /\ j \notin OptionalParameters(case.method)}}

\* C15 (as claimed): every descriptor of a listed catalogue has a backend
\* operation, and the fields it declares required are those passed for the
\* parameters the operation takes without a default and not optional.
C15_SchemaParity ==
    response.method = "tools/list" =>
        \A i \in 1..Len(response.result.tools) :
            LET tool == response.result.tools[i]
                case == SwitchOn(tool.name)
            IN  /\ case.label # "default"
                /\ case.method \in MethodNames
                /\ Range(Required(tool)) = MandatoryFields(case)

\* C16 (as claimed): a backend operation whose remote request failed returns
\* (nothing is thrown into the handler) an object whose error field is the
\* message string of the failure, with success false for delete and share.
C16_ErrorIsMessageString ==
    (Completed /\ last.outcome.kind = "rejected") =>
        /\ last.thrown = NoError
        /\ Get(last.result, "error") = Str(last.outcome.error.message)
        /\ last.name \in {"google_sheets_delete", "google_sheets_share"}
              => Get(last.result, "success") = Bool(FALSE)

\* C16 (amended): as claimed for every operation but verify_connection,
\* whose returned object has connected false and an error field that is an
\* object with the message string of the failure as its message, next to
\* the code of the failure, or "UNKNOWN_ERROR" when it has none.
C16_ErrorHoldsMessage ==
    (Completed /\ last.outcome.kind = "rejected") =>
        /\ last.thrown = NoError
        /\ IF last.name = "google_sheets_verify_connection"
           THEN /\ Get(last.result, "connected") = Bool(FALSE)
                /\ Get(Get(last.result, "error"), "message")
                     = Str(last.outcome.error.message)
                /\ Get(Get(last.result, "error"), "code")
                     = OrElse(last.outcome.error.code, Str(<<"UNKNOWN_ERROR">>))
           ELSE Get(last.result, "error") = Str(last.outcome.error.message)
        /\ last.name \in {"google_sheets_delete", "google_sheets_share"}
              => Get(last.result, "success") = Bool(FALSE)

\* C16 witness: a verify_connection call whose remote request failed with an
\* error without a code was answered from what the operation returned.
C16_Witness ==
    /\ Answered
    /\ last.name = "google_sheets_verify_connection"
    /\ last.outcome.kind = "rejected"
    /\ last.outcome.error.code = Undefined
    /\ Get(Get(last.result, "error"), "code") = Str(<<"UNKNOWN_ERROR">>)

\* C17: two get_values calls with identical arguments, answered by the
\* service from the same state of the range (the same outcome of the remote
\* request), get envelopes with the same text, byte for byte, whatever
\* verify_connection or get_values calls were handled before, between or
\* concurrently.
C17_GetValuesIdempotent ==
    \A i \in 1..Len(reads) : \A j \in 1..Len(reads) :
        (reads[i].args = reads[j].args /\ reads[i].outcome = reads[j].outcome)
            => reads[i].text = reads[j].text

\* C17 witness: two get_values calls with the same spreadsheetId and range
\* were both answered from a range holding values, and the texts are equal.
C17_Witness ==
    /\ Len(reads) = 2
    /\ reads[1].args = reads[2].args
    /\ Get(reads[1].args, "range") = Str(<<"Sheet1!A1:B1">>)
    /\ reads[1].outcome = reads[2].outcome
    /\ reads[1].outcome.kind = "resolved"
    /\ Get(reads[1].outcome.data, "values") # Undefined
    /\ reads[1].text = reads[2].text
    /\ Contains(reads[1].text, <<DQ, "values", DQ, ": ">>)

\* `"key": value` as JSON.stringify writes a member whose value is a string.
Member(key, value) == <<DQ, key, DQ, ": ">> \o Quote(value.s)

\* C19: a create call whose remote request succeeded is answered with a
\* non-error envelope whose payload holds the spreadsheetId the service
\* assigned, the title that was passed, and a url that embeds that id.
C19_CreateReturnsIdAndUrl ==
    (Answered /\ last.name = "google_sheets_create" /\ last.outcome.kind = "resolved") =>
        LET id    == Get(last.outcome.data, "spreadsheetId")
            title == Get(last.args, "title")
            url   == Get(last.result, "url")
        IN  /\ ~IsError(response.result)
            /\ Get(last.result, "spreadsheetId") = id
            /\ Get(last.result, "title") = title
            /\ url.t = "str" /\ Contains(url.s, id.s)
            /\ Contains(Text(response.result), Member("spreadsheetId", id))
            /\ Contains(Text(response.result), Member("url", url))
            /\ title # Undefined => Contains(Text(response.result), Member("title", title))

\* C19 witness: create was called with the title "Budget", the service
\* assigned the id "new-2", and the call was answered.
C19_Witness ==
    /\ Answered
    /\ last.name = "google_sheets_create"
    /\ last.outcome.kind = "resolved"
    /\ Get(last.args, "title") = Str(<<"Budget">>)
    /\ Get(last.outcome.data, "spreadsheetId") = Str(<<"new-2">>)
    /\ Contains(Text(response.result),
                <<"https://docs.google.com/spreadsheets/d/", "new-2", "/edit">>)

\* C20: a list call without arguments (the argument map absent or empty,
\* both of which the handler reads as the empty map) issues one files.list
\* request with page size 10 and no page token; when that request succeeds
\* the call is answered with a non-error envelope whose payload holds the
\* files of the answer, possibly none, as spreadsheets, and the next-page
\* token of the answer when it has one and none otherwise.
C20_ListWithoutArguments ==
    /\ \A id \in Ids :
          (/\ pending[id] # NoCall
           /\ pending[id].name = "google_sheets_list"
           /\ pending[id].args = Obj(<<>>))
          => /\ Len(pending[id].requests) = 1
             /\ pending[id].requests[1].api = "files.list"
             /\ Get(pending[id].requests[1].params, "pageSize") = Num(10)
             /\ Get(pending[id].requests[1].params, "pageToken") = Undefined
    /\ (/\ Answered
        /\ last.name = "google_sheets_list"
        /\ last.args = Obj(<<>>)
        /\ last.outcome.kind = "resolved")
       => LET files == Get(last.outcome.data, "files")
              token == Get(last.outcome.data, "nextPageToken")
          IN  /\ ~IsError(response.result)
              /\ Get(last.requests[1].params, "pageSize") = Num(10)
              /\ Get(last.requests[1].params, "pageToken") = Undefined
              /\ Get(last.result, "spreadsheets") = files
              /\ Get(last.result, "nextPageToken") = token
              /\ Text(response.result) = JSONstringify(last.result)
              /\ Contains(Text(response.result), <<DQ, "spreadsheets", DQ, ": ">>)
              /\ IF token = Undefined
                 THEN "nextPageToken" \notin Range(Text(response.result))
                 ELSE Contains(Text(response.result), Member("nextPageToken", token))

\* C20 witness: a list call without arguments was answered from an answer
\* of the service that holds no file and no next-page token.
C20_Witness ==
    /\ Answered
    /\ last.name = "google_sheets_list"
    /\ last.args = Obj(<<>>)
    /\ last.outcome.kind = "resolved"
    /\ Get(last.outcome.data, "files") = Arr(<<>>)
    /\ Get(last.outcome.data, "nextPageToken") = Undefined
    /\ Contains(Text(response.result), <<DQ, "spreadsheets", DQ, ": ", "[]">>)

\* The response being written answers the call with request id `id`.
CallAnswered(id) == response.method = "tools/call" /\ response.id = id

\* C21 (as claimed): every call suspended at its remote request is
\* eventually answered with an envelope, provided the service answers the
\* request; a call leaves the calls in flight only by being answered (it is
\* never cancelled or timed out), and once answered it is no longer in
\* flight, so it is not answered twice.
C21_EveryCallAnswered ==
    /\ \A id \in Ids : (pending[id] # NoCall) ~> CallAnswered(id)
    /\ [][\A id \in Ids :
            /\ (pending[id] # NoCall /\ pending'[id] = NoCall) => CallAnswered(id)'
            /\ (CallAnswered(id)' /\ ~CallAnswered(id)) => pending'[id] = NoCall]_vars

\* C21 (amended): as claimed, unless SIGINT or SIGTERM ends the process
\* first: the calls then in flight are given up unanswered.
C21_AnsweredUnlessExited ==
    /\ \A id \in Ids :
          (pending[id] # NoCall) ~> (CallAnswered(id) \/ process.status = "exited")
    /\ [][\A id \in Ids :
            /\ (pending[id] # NoCall /\ pending'[id] = NoCall)
                  => \/ CallAnswered(id)' /\ IsEnvelope(response'.result)
                     \/ process'.status = "exited" /\ process'.cause \in Signals
            /\ (CallAnswered(id)' /\ ~CallAnswered(id)) => pending'[id] = NoCall]_vars

\* C21 witness: a call was answered after its remote request failed, while
\* another call was still suspended at its own.
C21_Witness ==
    /\ CallAnswered(2)
    /\ Answered
    /\ last.outcome.kind = "rejected"
    /\ pending[2] = NoCall
    /\ pending[1] # NoCall

\* The backend operation that corresponds to each catalogued tool name.
Corresponding(name) ==
    CASE name = "google_sheets_create"            -> "createSpreadsheet"
      [] name = "google_sheets_get"               -> "getSpreadsheet"
      [] name = "google_sheets_update_values"     -> "updateValues"
      [] name = "google_sheets_append_values"     -> "appendValues"
      [] name = "google_sheets_get_values"        -> "getValues"
      [] name = "google_sheets_clear_values"      -> "clearValues"
      [] name = "google_sheets_add_sheet"         -> "addSheet"
      [] name = "google_sheets_delete_sheet"      -> "deleteSheet"
      [] name = "google_sheets_list"              -> "listSpreadsheets"
      [] name = "google_sheets_delete"            -> "deleteSpreadsheet"
      [] name = "google_sheets_share"             -> "shareSpreadsheet"
      [] name = "google_sheets_search"            -> "searchSpreadsheets"
      [] name = "google_sheets_format_cells"      -> "formatCells"
      [] name = "google_sheets_verify_connection" -> "verifyConnection"
      [] name = "write_to_sheet"                  -> "writeToSheet"

\* The value an operation works with when the optional field is absent.
ClaimedDefault(field) ==
    CASE field = "includeGridData"  -> Bool(FALSE)
      [] field = "valueInputOption" -> Str(<<"USER_ENTERED">>)
      [] field = "role"             -> Str(<<"reader">>)
      [] field = "pageSize"         -> Num(10)
      [] OTHER                      -> Undefined

\* The call (in flight or answered) invoked the operation that corresponds
\* to its tool name, once, each parameter taken from the like-named field
\* of its argument map, an absent field leaving the parameter to its default.
DispatchedByName(c, p) ==
    LET m == Corresponding(c.name)
    IN  /\ c.invoked = <<m>>
        /\ m \in MethodNames
        /\ Len(p) = Len(ParameterNames(m))
        /\ \A i \in 1..Len(p) :
              LET passed == Get(c.args, ParameterNames(m)[i])
              IN  p[i] = IF passed = Undefined
                         THEN ClaimedDefault(ParameterNames(m)[i])
                         ELSE passed

\* C22 (as claimed): every call naming a catalogued tool invokes the
\* backend operation that corresponds to the name, and no other, with each
\* parameter taken from the like-named field of the argument map; an absent
\* optional field leaves the operation's default in force (includeGridData
\* false, valueInputOption USER_ENTERED, role reader, pageSize 10).
C22_DispatchByName ==
    /\ \A id \in Ids : pending[id] # NoCall => DispatchedByName(pending[id], pending[id].p)
    /\ (Completed /\ last.name \in ToolNames) =>
            /\ last.invoked = <<Corresponding(last.name)>>
            /\ last.outcome.kind \in {"resolved", "rejected"}

(***************************************************************************)
(* C23: calls change nothing the gateway or the client holds.               *)
(***************************************************************************)

\* A step taken on behalf of a request: one that starts a call, answers a
\* request or writes a response out, as opposed to the delivery of a signal.
RequestStep ==
    /\ process = Running
    /\ ~(process'.status = "exited" /\ process'.cause \in Signals)

\* C23: no step of a tool call, whether the call ends in a success or in an
\* error, changes the state the gateway and the client hold: the project
\* ID, the auth handle, the two service clients, the temporary file path,
\* the connection and the files on disk are the same after the step as
\* before it (the catalogue is the constant Tools).
C23_CallsChangeNoState ==
    [][RequestStep => UNCHANGED <<client, transport, tempFiles>>]_vars

\* A call has been answered with an error by a client that is still the
\* one built at start-up, while another call is in flight.
C23_Witness ==
    /\ Answered
    /\ last.name \in ToolNames
    /\ last.outcome.kind = "rejected"
    /\ \E id \in Ids : pending[id] # NoCall
    /\ client \in Clients
    /\ transport = "connected"

(***************************************************************************)
(* C24: the configurations the server starts with.                          *)
(***************************************************************************)

\* The option was given a value (a non-empty one).
Supplied(v) == v # Undefined /\ v # Str(<<>>)

\* At least one credential mode is fully supplied.
CredentialMode(o) ==
    \/ Supplied(o.apiKey)
    \/ Supplied(o.serviceAccountPath)
    \/ Supplied(o.serviceAccountJson)
    \/ /\ Supplied(o.oauthClientId)
       /\ Supplied(o.oauthClientSecret)
       /\ Supplied(o.oauthRefreshToken)

\* A credential mode, and a project ID unless the OAuth triple is complete.
Sufficient(o) ==
    /\ CredentialMode(o)
    /\ \/ Supplied(o.projectId)
       \/ /\ Supplied(o.oauthClientId)
          /\ Supplied(o.oauthClientSecret)
          /\ Supplied(o.oauthRefreshToken)

\* Some request is being served or has been answered.
Serving ==
    \/ response # NoResponse
    \/ \E id \in Ids : pending[id] # NoCall

C25_ClosedBeforeExit ==
    (process.status = "exited" /\ process.cause = "SIGINT")
        => /\ transport = "closed"
           /\ process.code = 0

(***************************************************************************)
(* C26: the temporary credentials file.                                     *)
(***************************************************************************)

\* The process has exited through the exit event, SIGINT or SIGTERM.
ExitedCleanly ==
    /\ process.status = "exited"
    /\ process.cause \in {"exit"} \cup Signals

\* The client was built from service-account JSON: its auth handle was given
\* the temporary file as its key file.
BuiltFromJson == client.auth = "GoogleAuth" /\ client.keyFile = TempPath

====
